---- MODULE Spec2Model ----
(***************************************************************************)
(* The hcloud docker-machine driver (drivers/hcloud/hcloud.go) as a state  *)
(* machine: the Driver struct, its lifecycle operations, the action        *)
(* waiter, and the Hetzner Cloud provider as the environment the driver    *)
(* talks to through its client.                                            *)
(*                                                                         *)
(* The host framework calls one operation at a time.  An operation runs    *)
(* atomically up to the point where it blocks in waitOnAction on the       *)
(* provider's error channel; it resumes (CreateReturn, PowerOpReturn) once *)
(* the provider has produced the terminal signal.                          *)
(***************************************************************************)
EXTENDS Integers, Sequences, FiniteSets, TLC

\* ---------------------------------------------------------------- bounds
\* Servers the provider account may hold (its resource limit).
MaxServers == 2
\* Progress events the provider streams for one action before its terminal signal.
MaxProgress == 1

\* ------------------------------------------------------- input alphabets
\* Values of the string flags; "" is the flag left empty.
Tokens == {"", "T"}
Images == {"", "ubuntu-18.04"}
ServerTypes == {"", "cx11"}
Datacenters == {"", "fsn1-dc8"}
Locations == {"", "fsn1"}

\* ------------------------------------------------------------ error values
Nil == "nil"
\* hcloud.ErrorCodeNotFound, as hcloud.IsError recognises it.
ErrNotFound == "ErrNotFound"
\* Any other transport or API failure of a synchronous provider call.
ErrAPI == "ErrAPI"
\* The error a failed asynchronous action carries.
ErrAction == "ErrAction"
ErrTokenRequired == "--hcloud-token option is required"
ErrImageRequired == "--hcloud-image option is required"
ErrTypeRequired == "--hcloud-type option is required"
ErrIPNotSet == "IP address is not set"
ErrHostIsNotRunning == "Host is not running"
\* A nil-pointer dereference: the driver process dies, nothing is returned.
Panic == "panic"

\* Errors a lookup of a named resource or of a server may return.
LookupErrors == {ErrNotFound, ErrAPI}
\* Errors a create, an action submission or a delete may return.
CallErrors == {ErrAPI}

\* ------------------------------------------------------- provider statuses
ServerStatusRunning == "running"
ServerStatusOff == "off"
ServerStatusStopping == "stopping"
ServerStatusStarting == "starting"
ServerStatusInitializing == "initializing"
\* Statuses hcloud-go defines besides the five the driver names (migrating and
\* rebuilding are further ones; the switch has no case for any of them).
OtherStatuses == {"deleting", "unknown"}
ServerStatuses ==
    {ServerStatusRunning, ServerStatusOff, ServerStatusStopping,
     ServerStatusStarting, ServerStatusInitializing} \cup OtherStatuses
\* A server id the provider has not assigned yet, and one whose server was deleted.
Absent == "absent"
Gone == "gone"

\* The public IPv4 addresses the provider hands out; NilIP is a server
\* descriptor whose address is not populated.
NilIP == "nil-ip"
IPv4s == {"203.0.113.9", NilIP}

\* net.IP.String(): the dotted form, "<nil>" for an unset address.
IPString(ip) == IF ip = NilIP THEN "<nil>" ELSE ip

\* ------------------------------------------------------- abstract states
StateRunning == "Running"
StateStopped == "Stopped"
StateStarting == "Starting"
StateStopping == "Stopping"
StateError == "Error"

VARIABLES
    \* the Driver struct
    hcloud,      \* TRUE once the client handle is set
    Image, Location, Datacenter, ServerType,
    serverId,    \* 0 is the zero value: no server bound
    IPAddress,   \* BaseDriver.IPAddress, "" is the zero value
    \* the operation the framework has invoked
    pc,          \* "idle", "waiting" (blocked on errCh) or "crashed"
    op,          \* name of the operation running or last returned
    flags,       \* the options SetConfigFromFlags read, NoFlags for other operations
    ret,         \* its error result (Nil, an error, Panic), "" while it runs
    retVal,      \* its value result as a tuple, << >> when it has none
    calls,       \* the provider calls it has issued, in order
    resp,        \* the ServerCreateResult of Create's last creation call
    \* the provider
    servers,     \* server id -> status or Absent
    action,      \* the action in flight: its command label and its server
    errCh,       \* terminal signals produced and not yet consumed
    progress     \* progress events produced for the action in flight

driver == <<hcloud, Image, Location, Datacenter, ServerType, serverId, IPAddress>>
invocation == <<pc, op, flags, ret, retVal, calls, resp>>
provider == <<servers, action, errCh, progress>>
vars == <<driver, invocation, provider>>

ServerIds == 1..MaxServers
NoResp == [id |-> 0, ip |-> NilIP]

\* One provider call as the operation issued it: the client method, the name
\* or the server id it was given, and the error it returned.
Call(api, key, id, err) == [api |-> api, key |-> key, id |-> id, err |-> err]

\* A flag the operation did not read.
Unread == "-"
NoFlags == [token |-> Unread, image |-> Unread, serverType |-> Unread,
            datacenter |-> Unread, location |-> Unread]

NoAction == [cmd |-> "", id |-> 0]
\* Ids the provider has a server for.
Existing == {i \in ServerIds : servers[i] \notin {Absent, Gone}}
\* The id the provider gives the next server, 0 when the account is full.
NextId == IF \E i \in ServerIds : servers[i] = Absent
          THEN CHOOSE i \in ServerIds :
                   servers[i] = Absent /\ \A j \in ServerIds : servers[j] = Absent => i <= j
          ELSE 0

\* NewDriver: every field but the BaseDriver name and path is the zero value.
Init ==
    /\ hcloud = FALSE
    /\ Image = "" /\ Location = "" /\ Datacenter = "" /\ ServerType = ""
    /\ serverId = 0
    /\ IPAddress = ""
    /\ pc = "idle" /\ op = "NewDriver" /\ flags = NoFlags /\ ret = Nil /\ retVal = << >>
    /\ calls = << >> /\ resp = NoResp
    /\ servers = [i \in ServerIds |-> Absent]
    /\ action = NoAction /\ errCh = << >> /\ progress = 0

\* An operation returns to the framework with error e and value v.
Return(name, e, v, cs) ==
    /\ pc' = "idle" /\ op' = name /\ ret' = e /\ retVal' = v /\ calls' = cs
    /\ flags' = NoFlags

\* An operation dereferences a nil pointer.
Crash(name, cs) ==
    /\ pc' = "crashed" /\ op' = name /\ ret' = Panic /\ retVal' = << >> /\ calls' = cs
    /\ flags' = NoFlags

\* An operation blocks in waitOnAction on action a: WatchProgress is called and
\* the operation receives from the error channel.
Block(name, a, cs) ==
    /\ pc' = "waiting" /\ op' = name /\ ret' = "" /\ retVal' = << >>
    /\ flags' = NoFlags
    /\ calls' = Append(cs, Call("Action.WatchProgress", a.cmd, a.id, ""))
    /\ action' = a /\ errCh' = << >> /\ progress' = 0

\* Outcomes of Server.GetByID(id): the server, or an error.
GetByIDOutcomes(id) ==
    IF id \in Existing THEN {Nil, ErrAPI} ELSE LookupErrors

\* The call Server.GetByID(id) returning e.
GetByID(id, e) == Call("Server.GetByID", "", id, e)

\* SetConfigFromFlags returns e having read the options f.
Configured(e, f) ==
    /\ pc' = "idle" /\ op' = "SetConfigFromFlags" /\ flags' = f
    /\ ret' = e /\ retVal' = << >> /\ calls' = << >>

\* SetConfigFromFlags as it would be if the client were constructed as soon
\* as the token is known, before the image and the server type are checked.
SetConfigFromFlagsClientFirst ==
    /\ pc = "idle"
    /\ \E token \in Tokens :
        IF token = ""
        THEN /\ Configured(ErrTokenRequired, [NoFlags EXCEPT !.token = token])
             /\ UNCHANGED <<driver, resp, provider>>
        ELSE \E image \in Images :
        IF image = ""
        THEN /\ hcloud' = TRUE
             /\ Configured(ErrImageRequired,
                           [NoFlags EXCEPT !.token = token, !.image = image])
             /\ UNCHANGED <<Image, Location, Datacenter, ServerType, serverId,
                            IPAddress, resp, provider>>
        ELSE \E serverType \in ServerTypes :
        IF serverType = ""
        THEN /\ hcloud' = TRUE
             /\ Image' = image
             /\ Configured(ErrTypeRequired,
                           [NoFlags EXCEPT !.token = token, !.image = image,
                                           !.serverType = serverType])
             /\ UNCHANGED <<Location, Datacenter, ServerType, serverId,
                            IPAddress, resp, provider>>
        ELSE \E datacenter \in Datacenters, location \in Locations :
             /\ Image' = image
             /\ ServerType' = serverType
             /\ Datacenter' = datacenter
             /\ Location' = location
             /\ hcloud' = TRUE
             /\ Configured(Nil, [token |-> token, image |-> image,
                                 serverType |-> serverType,
                                 datacenter |-> datacenter, location |-> location])
             /\ UNCHANGED <<serverId, IPAddress, resp, provider>>

\* The flags are read one at a time, each just before its check.
SetConfigFromFlags ==
    /\ pc = "idle"
    /\ \E token \in Tokens :
        IF token = ""
        THEN /\ Configured(ErrTokenRequired, [NoFlags EXCEPT !.token = token])
             /\ UNCHANGED <<driver, resp, provider>>
        ELSE \E image \in Images :
        IF image = ""
        THEN /\ Configured(ErrImageRequired,
                           [NoFlags EXCEPT !.token = token, !.image = image])
             /\ UNCHANGED <<driver, resp, provider>>
        ELSE \E serverType \in ServerTypes :
        IF serverType = ""
        THEN /\ Image' = image
             /\ Configured(ErrTypeRequired,
                           [NoFlags EXCEPT !.token = token, !.image = image,
                                           !.serverType = serverType])
             /\ UNCHANGED <<hcloud, Location, Datacenter, ServerType, serverId,
                            IPAddress, resp, provider>>
        ELSE \E datacenter \in Datacenters, location \in Locations :
             /\ Image' = image
             /\ ServerType' = serverType
             /\ Datacenter' = datacenter
             /\ Location' = location
             /\ hcloud' = TRUE
             /\ Configured(Nil, [token |-> token, image |-> image,
                                 serverType |-> serverType,
                                 datacenter |-> datacenter, location |-> location])
             /\ UNCHANGED <<serverId, IPAddress, resp, provider>>

\* Start, Stop, Restart and Kill share one shape: GetByID, submit, wait.
\* api is the client method that submits the action, cmd the action's label.
PowerOp(name, api, cmd) ==
    /\ pc = "idle"
    /\ IF ~hcloud
       THEN /\ Crash(name, << >>)
            /\ UNCHANGED <<driver, resp, provider>>
       ELSE \E e1 \in GetByIDOutcomes(serverId) :
            LET c1 == GetByID(serverId, e1) IN
            IF e1 # Nil
            THEN /\ Return(name, e1, << >>, <<c1>>)
                 /\ UNCHANGED <<driver, resp, provider>>
            ELSE \E e2 \in {Nil} \cup CallErrors :
                 LET c2 == Call(api, "", serverId, e2) IN
                 IF e2 # Nil
                 THEN /\ Return(name, e2, << >>, <<c1, c2>>)
                      /\ UNCHANGED <<driver, resp, provider>>
                 ELSE /\ Block(name, [cmd |-> cmd, id |-> serverId], <<c1, c2>>)
                      /\ UNCHANGED <<driver, resp, servers>>

Start == PowerOp("Start", "Server.Poweron", "start_server")

Stop == PowerOp("Stop", "Server.Shutdown", "shutdown_server")

Restart == PowerOp("Restart", "Server.Reboot", "reboot_server")

\* Kill as it would be if it were a copy of Stop left unchanged.
KillShutsDown == PowerOp("Kill", "Server.Shutdown", "shutdown_server")

Kill == PowerOp("Kill", "Server.Poweroff", "stop_server")

PowerOps == {"Start", "Stop", "Restart", "Kill"}

\* waitOnAction as it would be if the received error were logged and dropped.
waitOnActionDropsError(sig) == Nil

\* The result of waitOnAction once sig has arrived on the error channel.
waitOnAction(sig) == IF sig # Nil THEN sig ELSE Nil

\* PowerOpReturn as it would be if a power operation dropped the stored
\* address once its action has ended.
PowerOpReturnClearsAddress ==
    /\ pc = "waiting" /\ op \in PowerOps
    /\ errCh # << >>
    /\ LET sig == Head(errCh) IN
       /\ errCh' = Tail(errCh)
       /\ action' = NoAction /\ progress' = 0
       /\ Return(op, waitOnAction(sig), << >>,
                 [calls EXCEPT ![Len(calls)].err = sig])
    /\ IPAddress' = ""
    /\ UNCHANGED <<hcloud, Image, Location, Datacenter, ServerType, serverId,
                   resp, servers>>

\* Start, Stop, Restart and Kill resume: `return d.waitOnAction(action)`.
PowerOpReturn ==
    /\ pc = "waiting" /\ op \in PowerOps
    /\ errCh # << >>
    /\ LET sig == Head(errCh) IN
       /\ errCh' = Tail(errCh)
       /\ action' = NoAction /\ progress' = 0
       /\ Return(op, waitOnAction(sig), << >>,
                 [calls EXCEPT ![Len(calls)].err = sig])
    /\ UNCHANGED <<driver, resp, servers>>

\* CreateLookups as it would be if the image were resolved before the server
\* type.
CreateLookupsImageFirst ==
    <<[api |-> "Image.Get", key |-> Image],
      [api |-> "ServerType.Get", key |-> ServerType]>>
    \o (IF Datacenter # "" THEN <<[api |-> "Datacenter.Get", key |-> Image]>> ELSE << >>)
    \o (IF Location # "" THEN <<[api |-> "Location.Get", key |-> Image]>> ELSE << >>)

\* The resource lookups Create performs before the creation call, in order,
\* each with the key it passes to the client.
CreateLookups ==
    <<[api |-> "ServerType.Get", key |-> ServerType],
      [api |-> "Image.Get", key |-> Image]>>
    \o (IF Datacenter # "" THEN <<[api |-> "Datacenter.Get", key |-> Image]>> ELSE << >>)
    \o (IF Location # "" THEN <<[api |-> "Location.Get", key |-> Image]>> ELSE << >>)

\* The calls issued when lookups 1..n are made and the n-th returns e.
LookupCalls(n, e) ==
    [i \in 1..n |-> Call(CreateLookups[i].api, CreateLookups[i].key, 0,
                         IF i = n THEN e ELSE Nil)]

\* Outcomes of Server.Create: the provider refuses once the account is full.
CreateOutcomes == IF NextId = 0 THEN CallErrors ELSE {Nil} \cup CallErrors

\* Create up to its wait.  The creation call's error is dropped; on an error
\* the result holds no action and waitOnAction dereferences nil.
Create ==
    /\ pc = "idle"
    /\ IF ~hcloud
       THEN /\ Crash("Create", << >>)
            /\ UNCHANGED <<driver, resp, provider>>
       ELSE \/ \E n \in 1..Len(CreateLookups), e \in LookupErrors :
                 /\ Return("Create", e, << >>, LookupCalls(n, e))
                 /\ UNCHANGED <<driver, resp, provider>>
            \/ \E e \in CreateOutcomes :
                 LET cs == Append(LookupCalls(Len(CreateLookups), Nil),
                                  Call("Server.Create", "", 0, e)) IN
                 IF e # Nil
                 THEN /\ Crash("Create", cs)
                      /\ UNCHANGED <<driver, resp, provider>>
                 ELSE \E ip \in IPv4s :
                      /\ resp' = [id |-> NextId, ip |-> ip]
                      /\ servers' = [servers EXCEPT ![NextId] = ServerStatusInitializing]
                      /\ Block("Create", [cmd |-> "create_server", id |-> NextId], cs)
                      /\ UNCHANGED driver

\* CreateReturn as it would be if the address were never stored.
CreateReturnSkipsAddress ==
    /\ pc = "waiting" /\ op = "Create"
    /\ errCh # << >>
    /\ LET sig == Head(errCh) IN
       /\ errCh' = Tail(errCh)
       /\ action' = NoAction /\ progress' = 0
       /\ serverId' = resp.id
       /\ Return("Create", Nil, << >>, [calls EXCEPT ![Len(calls)].err = sig])
    /\ UNCHANGED <<hcloud, Image, Location, Datacenter, ServerType, IPAddress,
                   resp, servers>>

\* CreateReturn as it would be if the identity were stored only after a wait
\* that ended in the completion signal.
CreateReturnBindsOnSuccess ==
    /\ pc = "waiting" /\ op = "Create"
    /\ errCh # << >>
    /\ LET sig == Head(errCh) IN
       /\ errCh' = Tail(errCh)
       /\ action' = NoAction /\ progress' = 0
       /\ serverId' = IF sig = Nil THEN resp.id ELSE serverId
       /\ IPAddress' = IF sig = Nil THEN IPString(resp.ip) ELSE IPAddress
       /\ Return("Create", Nil, << >>, [calls EXCEPT ![Len(calls)].err = sig])
    /\ UNCHANGED <<hcloud, Image, Location, Datacenter, ServerType, resp, servers>>

\* Create resumes after its wait: the wait's result is dropped, the server's
\* id and address are stored, nil is returned.
CreateReturn ==
    /\ pc = "waiting" /\ op = "Create"
    /\ errCh # << >>
    /\ LET sig == Head(errCh) IN
       /\ errCh' = Tail(errCh)
       /\ action' = NoAction /\ progress' = 0
       /\ serverId' = resp.id
       /\ IPAddress' = IPString(resp.ip)
       /\ Return("Create", Nil, << >>, [calls EXCEPT ![Len(calls)].err = sig])
    /\ UNCHANGED <<hcloud, Image, Location, Datacenter, ServerType, resp, servers>>

\* StateMapper as it would be if the final return reported state.Error.
StateMapperDefaultError(status) ==
    CASE status = ServerStatusRunning -> StateRunning
      [] status = ServerStatusOff -> StateStopped
      [] status = ServerStatusStopping -> StateStopping
      [] status = ServerStatusInitializing -> StateStarting
      [] OTHER -> StateError

\* StateMapper as it would be if the Starting case shared the body of the
\* Initializing case below it.
StateMapperStartingJoinsInitializing(status) ==
    CASE status = ServerStatusRunning -> StateRunning
      [] status = ServerStatusOff -> StateStopped
      [] status = ServerStatusStopping -> StateStopping
      [] status = ServerStatusStarting -> StateStarting
      [] status = ServerStatusInitializing -> StateStarting
      [] OTHER -> StateRunning

\* The switch of GetState on server.Status.  Go cases do not fall through:
\* the empty Starting case leaves the switch and reaches the final return.
StateMapper(status) ==
    CASE status = ServerStatusRunning -> StateRunning
      [] status = ServerStatusOff -> StateStopped
      [] status = ServerStatusStopping -> StateStopping
      [] status = ServerStatusStarting -> StateRunning
      [] status = ServerStatusInitializing -> StateStarting
      [] OTHER -> StateRunning

\* GetState as it would be if a server the provider does not have were
\* reported as stopped instead of as an error.
GetStateNotFoundAsStopped ==
    /\ pc = "idle"
    /\ IF ~hcloud
       THEN Crash("GetState", << >>)
       ELSE \E e \in GetByIDOutcomes(serverId) :
            LET c == GetByID(serverId, e) IN
            IF e = ErrNotFound
            THEN Return("GetState", Nil, <<StateStopped>>, <<c>>)
            ELSE IF e # Nil
            THEN Return("GetState", e, <<StateError>>, <<c>>)
            ELSE Return("GetState", Nil, <<StateMapper(servers[serverId])>>, <<c>>)
    /\ UNCHANGED <<driver, resp, provider>>

GetState ==
    /\ pc = "idle"
    /\ IF ~hcloud
       THEN Crash("GetState", << >>)
       ELSE \E e \in GetByIDOutcomes(serverId) :
            LET c == GetByID(serverId, e) IN
            IF e # Nil
            THEN Return("GetState", e, <<StateError>>, <<c>>)
            ELSE Return("GetState", Nil, <<StateMapper(servers[serverId])>>, <<c>>)
    /\ UNCHANGED <<driver, resp, provider>>

\* RemoveLookupError as it would be without the not-found case.
RemoveLookupErrorVerbatim(e) == e

\* What Remove returns when its lookup fails with e: not-found is logged
\* and becomes nil.
RemoveLookupError(e) == IF e = ErrNotFound THEN Nil ELSE e

Remove ==
    /\ pc = "idle"
    /\ IF ~hcloud
       THEN /\ Crash("Remove", << >>)
            /\ UNCHANGED <<driver, resp, provider>>
       ELSE \E e1 \in GetByIDOutcomes(serverId) :
            LET c1 == GetByID(serverId, e1) IN
            IF e1 # Nil
            THEN /\ Return("Remove", RemoveLookupError(e1), << >>, <<c1>>)
                 /\ UNCHANGED <<driver, resp, provider>>
            ELSE \E e2 \in {Nil} \cup CallErrors :
                 /\ Return("Remove", e2, << >>,
                           <<c1, Call("Server.Delete", "", serverId, e2)>>)
                 /\ servers' = IF e2 = Nil
                               THEN [servers EXCEPT ![serverId] = Gone]
                               ELSE servers
                 /\ UNCHANGED <<driver, resp, action, errCh, progress>>

\* BaseDriver.GetIP: the stored address, an error while none is stored.
BaseDriverGetIP ==
    IF IPAddress = ""
    THEN [val |-> "", err |-> ErrIPNotSet]
    ELSE [val |-> IPAddress, err |-> Nil]

\* drivers.MustBeRunning given GetState's result (s, e).
MustBeRunning(s, e) ==
    IF e # Nil THEN e
    ELSE IF s # StateRunning THEN ErrHostIsNotRunning
    ELSE Nil

\* The framework asks for the address: Driver.GetIP is BaseDriver's.
GetIP ==
    /\ pc = "idle"
    /\ Return("GetIP", BaseDriverGetIP.err, <<BaseDriverGetIP.val>>, << >>)
    /\ UNCHANGED <<driver, resp, provider>>

GetSSHHostname ==
    /\ pc = "idle"
    /\ Return("GetSSHHostname", BaseDriverGetIP.err, <<BaseDriverGetIP.val>>, << >>)
    /\ UNCHANGED <<driver, resp, provider>>

\* fmt.Sprintf("tcp://%s", net.JoinHostPort(ip, "2376")), kept in pieces.
URLOf(ip) == <<"tcp://", ip, ":", "2376">>

GetURL ==
    /\ pc = "idle"
    /\ IF ~hcloud
       THEN Crash("GetURL", << >>)
       ELSE \E e \in GetByIDOutcomes(serverId) :
            LET c == GetByID(serverId, e)
                s == IF e # Nil THEN StateError ELSE StateMapper(servers[serverId])
                err == MustBeRunning(s, e)
            IN  IF err # Nil
                THEN Return("GetURL", err, <<"">>, <<c>>)
                ELSE IF BaseDriverGetIP.err # Nil
                THEN Return("GetURL", BaseDriverGetIP.err, <<"">>, <<c>>)
                ELSE Return("GetURL", Nil, URLOf(BaseDriverGetIP.val), <<c>>)
    /\ UNCHANGED <<driver, resp, provider>>

\* ------------------------------------------------------------ the provider
\* The provider is followed for as long as the driver process lives.
\* The status a server has once the action labelled cmd has completed.
StatusAfter(cmd) ==
    IF cmd \in {"shutdown_server", "stop_server"}
    THEN ServerStatusOff
    ELSE ServerStatusRunning

\* The provider streams a progress event for the action in flight.
ProviderProgress ==
    /\ pc = "waiting" /\ errCh = << >>
    /\ progress < MaxProgress
    /\ progress' = progress + 1
    /\ UNCHANGED <<driver, invocation, servers, action, errCh>>

\* The action in flight reaches its terminal outcome: the provider sends nil
\* or the action's error on the error channel, once.
ProviderTerminal ==
    /\ pc = "waiting" /\ errCh = << >>
    /\ \E sig \in {Nil, ErrAction} :
        /\ errCh' = <<sig>>
        /\ servers' = IF sig = Nil /\ action.id \in Existing
                      THEN [servers EXCEPT ![action.id] = StatusAfter(action.cmd)]
                      ELSE servers
    /\ UNCHANGED <<driver, invocation, action, progress>>

\* A server changes status for a reason of the provider's own.
ProviderStatusChange ==
    /\ pc # "crashed"
    /\ \E i \in Existing, s \in ServerStatuses :
        /\ servers[i] # s
        /\ servers' = [servers EXCEPT ![i] = s]
    /\ UNCHANGED <<driver, invocation, action, errCh, progress>>

\* A server is deleted behind the driver's back.
ProviderDelete ==
    /\ pc # "crashed"
    /\ \E i \in Existing : servers' = [servers EXCEPT ![i] = Gone]
    /\ UNCHANGED <<driver, invocation, action, errCh, progress>>

Next ==
    \/ SetConfigFromFlags
    \/ Create
    \/ CreateReturn
    \/ GetState
    \/ Kill
    \/ Remove
    \/ Restart
    \/ Start
    \/ Stop
    \/ PowerOpReturn
    \/ GetIP
    \/ GetSSHHostname
    \/ GetURL
    \/ ProviderProgress
    \/ ProviderTerminal
    \/ ProviderStatusChange
    \/ ProviderDelete

Spec == Init /\ [][Next]_vars

\* ================================================================ claims
\* The operations that address the server by the stored id.
IdentityOps == PowerOps \cup {"Remove", "GetState"}
\* The last call the operation issued.
LastCall == calls[Len(calls)]
\* The operation has returned to the framework.
Returned(name) == pc = "idle" /\ op = name

\* C1: start, stop, restart, kill, remove and queryState, invoked on a driver
\* whose client is set while no server id is stored (serverId = 0), return an
\* error and issue no provider call.
C1_UnboundIdentityRejected ==
    (hcloud /\ op \in IdentityOps /\ serverId = 0)
        => (pc = "idle" /\ ret # Nil /\ calls = << >>)

\* C2: when create, start, stop, restart or kill has waited on an action and
\* the action's terminal outcome is the failure, the operation returns that
\* error.
C2_FailedActionSurfaces ==
    \A name \in PowerOps \cup {"Create"} :
        (Returned(name) /\ calls # << >>
            /\ LastCall.api = "Action.WatchProgress" /\ LastCall.err # Nil)
        => ret = LastCall.err

\* C3: when a synchronous provider call of a lifecycle operation fails, the
\* operation returns exactly that error and issues no further call (remove's
\* not-found lookup, which C7 treats, aside).
C3_SyncFailureReturnedVerbatim ==
    \A i \in 1..Len(calls) :
        (/\ calls[i].api # "Action.WatchProgress"
         /\ calls[i].err # Nil
         /\ ~(op = "Remove" /\ calls[i].err = ErrNotFound))
        => (i = Len(calls) /\ pc = "idle" /\ ret = calls[i].err)

\* C4: the stored server id and the stored address change only in the step in
\* which a create resumes from its wait; no step of configure, start, stop,
\* restart, kill, remove, queryState or queryAddress, successful or failed,
\* changes either.
C4_OnlyCreateBinds ==
    [][(serverId' # serverId \/ IPAddress' # IPAddress)
          => (pc = "waiting" /\ op = "Create" /\ pc' = "idle")]_vars

\* C4 witness: bound to a server, a stop has waited and failed and the
\* identity is still in place.
C4_Witness ==
    /\ Returned("Stop") /\ ret = ErrAction
    /\ serverId # 0 /\ IPAddress # ""

\* C5: when create has returned nil, the stored server id is the id of the
\* server the creation call returned and the stored address is that server's
\* public IPv4 address as a string, both set; an address query on a driver
\* bound by create returns exactly that address and no error.
C5_CreateBindsIdentity ==
    /\ (Returned("Create") /\ ret = Nil)
        => /\ serverId = resp.id /\ serverId # 0
           /\ IPAddress = IPString(resp.ip) /\ IPAddress # ""
    /\ \A name \in {"GetIP", "GetSSHHostname"} :
        (Returned(name) /\ serverId # 0)
        => /\ ret = Nil
           /\ retVal = <<IPAddress>>
           /\ retVal = <<IPString(resp.ip)>>

\* C5 witness: after a create whose action completed, the SSH host name has
\* been queried and is the new server's address.
C5_Witness ==
    /\ Returned("GetSSHHostname") /\ ret = Nil
    /\ serverId = 1 /\ resp = [id |-> 1, ip |-> "203.0.113.9"]
    /\ retVal = <<"203.0.113.9">>

\* The server the driver is bound to is one GetState reports as Running.
ReportsRunning ==
    /\ hcloud
    /\ serverId \in Existing
    /\ StateMapper(servers[serverId]) = StateRunning

\* The step is operation name running from its call to its return.
Ran(name) ==
    pc = "idle" /\ pc' = "idle" /\ op' = name /\ invocation' # invocation

\* C6: an address query (GetIP, and GetSSHHostname through it) made while
\* GetState would not report Running returns an error.
C6_AddressNeedsRunning ==
    [][\A name \in {"GetIP", "GetSSHHostname"} :
          (Ran(name) /\ ~ReportsRunning) => ret' # Nil]_vars

\* C7: remove looks the server up once; on not-found it returns nil and issues
\* no delete; on a successful lookup it issues exactly one delete and returns
\* the delete's result; on any other lookup error it returns that error and
\* issues no delete.  So a remove of a server that is gone, the provider
\* saying so, returns nil however often it is repeated.
C7_RemoveClassifiesLookup ==
    Returned("Remove") =>
        /\ Len(calls) \in {1, 2}
        /\ calls[1].api = "Server.GetByID" /\ calls[1].id = serverId
        /\ calls[1].err = ErrNotFound => (ret = Nil /\ Len(calls) = 1)
        /\ calls[1].err = Nil =>
              /\ Len(calls) = 2
              /\ calls[2].api = "Server.Delete" /\ calls[2].id = serverId
              /\ ret = calls[2].err
        /\ calls[1].err \notin {Nil, ErrNotFound} =>
              (ret = calls[1].err /\ Len(calls) = 1)

\* C7 witness: a remove of a server that was created and is gone has returned
\* nil on the provider's not-found.
C7_Witness ==
    /\ Returned("Remove") /\ ret = Nil
    /\ serverId # 0 /\ servers[serverId] = Gone
    /\ Len(calls) = 1 /\ calls[1].err = ErrNotFound

\* C8: a GetState whose lookup succeeds returns no error and the state the
\* table gives for the provider status: running -> Running, off -> Stopped,
\* stopping -> Stopping, initializing -> Starting, any other status -> Running;
\* never Error.
C8_StateTable ==
    [][(Ran("GetState") /\ calls'[1].err = Nil)
          => LET status == servers[serverId] IN
             /\ ret' = Nil
             /\ retVal' # <<"Error">>
             /\ retVal' = <<IF status = "running" THEN "Running"
                            ELSE IF status = "off" THEN "Stopped"
                            ELSE IF status = "stopping" THEN "Stopping"
                            ELSE IF status = "initializing" THEN "Starting"
                            ELSE "Running">>]_vars

\* C8 witness: GetState has reported Running for a server whose status is
\* none of the four in the table.
C8_Witness ==
    /\ Returned("GetState") /\ ret = Nil /\ retVal = <<StateRunning>>
    /\ serverId \in Existing /\ servers[serverId] = "unknown"

\* One of the required options was read and found empty.
EmptyRequired(f) == f.token = "" \/ f.image = "" \/ f.serverType = ""

\* C9: SetConfigFromFlags returns an error exactly when the token, the image
\* or the server type is empty; then the client handle is as it was before and
\* no provider call is issued; otherwise it returns nil and the client handle
\* is set.
C9_ConfigureValidates ==
    [][op' = "SetConfigFromFlags" =>
          /\ calls' = << >>
          /\ EmptyRequired(flags') <=> ret' # Nil
          /\ ret' # Nil => hcloud' = hcloud
          /\ ret' = Nil => hcloud']_vars

\* C9 witness: a configure with a token and an image and no server type has
\* been rejected and the driver has no client.
C9_Witness ==
    /\ Returned("SetConfigFromFlags") /\ ret = ErrTypeRequired
    /\ flags.token = "T" /\ flags.image # "" /\ flags.serverType = ""
    /\ ~hcloud

\* The client method by which each power operation submits its action.
SubmitOf(name) ==
    CASE name = "Start" -> "Server.Poweron"
      [] name = "Stop" -> "Server.Shutdown"
      [] name = "Restart" -> "Server.Reboot"
      [] name = "Kill" -> "Server.Poweroff"

\* C10: start, stop, restart and kill issue, in this order and each at most
\* once, a lookup of the stored server id, the submission of their own action
\* and a wait on it; a failed lookup ends the operation before the submission,
\* a failed submission ends it before the wait, each with that error; once the
\* wait is reached the operation returns the wait's outcome.
C10_LookupSubmitWait ==
    (op \in PowerOps /\ pc # "crashed") =>
        /\ Len(calls) \in 1..3
        /\ calls[1].api = "Server.GetByID" /\ calls[1].id = serverId
        /\ Len(calls) >= 2 =>
              /\ calls[1].err = Nil
              /\ calls[2].api = SubmitOf(op) /\ calls[2].id = serverId
        /\ Len(calls) = 3 =>
              /\ calls[2].err = Nil
              /\ calls[3].api = "Action.WatchProgress" /\ calls[3].id = serverId
        /\ pc = "waiting" => Len(calls) = 3
        /\ pc = "idle" =>
              /\ ret = LastCall.err
              /\ Len(calls) < 3 => LastCall.err # Nil

\* C10 witness: a kill has looked up, submitted the forced power-off, waited,
\* and returned the failure of the action.
C10_Witness ==
    /\ Returned("Kill") /\ ret = ErrAction
    /\ Len(calls) = 3 /\ calls[2].api = "Server.Poweroff"
    /\ calls[3].err = ErrAction

\* C11: a wait ends only in a step that finds the terminal signal on the error
\* channel, and that step takes exactly that one signal off it; the waiter's
\* result is nil for the completion signal and the provider's error for the
\* failure signal, which is what start, stop, restart and kill return.  A
\* progress event never ends the wait, however many of them precede the
\* terminal signal.
C11_WaiterSingleShot ==
    [][/\ (pc = "waiting" /\ pc' # "waiting") =>
             /\ errCh # << >>
             /\ Len(errCh) = 1 /\ errCh' = << >>
             /\ pc' = "idle"
             /\ calls'[Len(calls')].err = Head(errCh)
             /\ op \in PowerOps =>
                   ret' = (IF Head(errCh) = ErrAction THEN ErrAction ELSE Nil)
       /\ (pc = "waiting" /\ progress' # progress /\ pc' = "waiting") =>
             UNCHANGED <<invocation, errCh>>]_vars

\* C11 witness: a restart has returned the action's failure, taken from the
\* error channel after the wait.
C11_Witness ==
    /\ Returned("Restart") /\ ret = ErrAction
    /\ Len(calls) = 3 /\ calls[3].api = "Action.WatchProgress"
    /\ calls[3].err = ErrAction
    /\ errCh = << >>

\* The driver's operations under the scheduling the claims about termination
\* assume: the provider brings every accepted action to its terminal signal,
\* and a goroutine blocked on the error channel runs once the signal is there.
\* (Every synchronous provider call returns: such a call is one step.)
FairSpec ==
    /\ Spec
    /\ WF_vars(ProviderTerminal)
    /\ WF_vars(CreateReturn)
    /\ WF_vars(PowerOpReturn)

\* C12: under that fairness, every invocation of a lifecycle operation on a
\* driver whose client is set returns to the caller.
C12_EveryInvocationReturns == (hcloud /\ pc # "idle") ~> (pc = "idle")

\* What does hold under that fairness: an operation that has entered the
\* waiter returns; and while no terminal signal is on the error channel it
\* cannot return, there being neither timeout nor cancellation.
WaitEndsOnlyBySignal ==
    /\ (pc = "waiting") ~> (pc = "idle")
    /\ []((pc = "waiting" /\ errCh = << >>) => ~ENABLED (CreateReturn \/ PowerOpReturn))

\* C13: once a create has stored a server id, no later step, a repeated
\* create included, changes the stored server id or the stored address.
C13_BoundOnce ==
    [][serverId # 0 => (serverId' = serverId /\ IPAddress' = IPAddress)]_vars

\* C14: when the creation call of create has succeeded and the wait on its
\* action has ended in the failure signal, create has still stored the new
\* server's id and its public IPv4 address.
C14_BindsDespiteFailedWait ==
    (/\ Returned("Create")
     /\ calls # << >>
     /\ LastCall.api = "Action.WatchProgress"
     /\ LastCall.err = ErrAction)
    => /\ serverId = resp.id /\ serverId \in ServerIds
       /\ IPAddress = IPString(resp.ip)

\* C14 witness: the first create has returned after its action failed, and
\* the driver holds server 1 and its address.
C14_Witness ==
    /\ Returned("Create")
    /\ LastCall.api = "Action.WatchProgress" /\ LastCall.err = ErrAction
    /\ serverId = 1 /\ IPAddress = "203.0.113.9"

\* The step is operation name being invoked on a driver whose client is set,
\* run up to its return or up to the point where it blocks.
Invoked(name) ==
    pc = "idle" /\ hcloud /\ op' = name /\ invocation' # invocation

\* C15: create resolves the server type, the image, the datacenter if one is
\* configured and the location if one is configured, in this order; when one
\* of these lookups fails create returns that error, the lookup is its last
\* provider call (no creation call, no wait) and the stored server id and
\* address are as before.
C15_ResolutionOrder ==
    [][Invoked("Create") =>
          LET want == <<"ServerType.Get", "Image.Get">>
                      \o (IF Datacenter # "" THEN <<"Datacenter.Get">> ELSE << >>)
                      \o (IF Location # "" THEN <<"Location.Get">> ELSE << >>)
              n == Len(want)
              cs == calls'
          IN  /\ Len(cs) >= 1
              /\ \A i \in 1..Len(cs) :
                    /\ i <= n => cs[i].api = want[i]
                    /\ i > n => /\ cs[i].api \in {"Server.Create", "Action.WatchProgress"}
                                /\ \A j \in 1..n : cs[j].err = Nil
                    /\ (i <= n /\ cs[i].err # Nil) =>
                          /\ i = Len(cs)
                          /\ pc' = "idle" /\ ret' = cs[i].err
                          /\ serverId' = serverId /\ IPAddress' = IPAddress]_vars

\* C15 witness: on a fresh driver with a datacenter and a location configured,
\* create has returned the failure of the location lookup, its fourth and
\* last call, and nothing is bound.
C15_Witness ==
    /\ Returned("Create") /\ ret = ErrNotFound
    /\ Len(calls) = 4
    /\ calls[3].api = "Datacenter.Get" /\ calls[4].api = "Location.Get"
    /\ calls[4].err = ErrNotFound
    /\ serverId = 0 /\ IPAddress = ""

\* C16: the datacenter lookup of create is issued with the configured
\* datacenter as its key, and the location lookup with the configured location.
C16_LookupKeys ==
    \A i \in 1..Len(calls) :
        /\ calls[i].api = "Datacenter.Get" => calls[i].key = Datacenter
        /\ calls[i].api = "Location.Get" => calls[i].key = Location

\* C17: a GetState whose lookup succeeds and finds the provider status
\* starting returns Running and no error, not Starting; one that finds
\* initializing returns Starting.
C17_StartingIsNotStarting ==
    [][(Ran("GetState") /\ calls'[1].err = Nil) =>
          /\ servers[serverId] = "starting" =>
                (ret' = Nil /\ retVal' = <<"Running">> /\ retVal' # <<"Starting">>)
          /\ servers[serverId] = "initializing" =>
                (ret' = Nil /\ retVal' = <<"Starting">>)]_vars

\* C17 witness: GetState has reported Running for a server the provider
\* reports as starting.
C17_Witness ==
    /\ Returned("GetState") /\ ret = Nil /\ retVal = <<StateRunning>>
    /\ calls[1].err = Nil
    /\ serverId \in Existing /\ servers[serverId] = ServerStatusStarting

\* C18: GetState issues exactly one provider call, the lookup of the stored
\* server id; it submits no action, does not enter the waiter and changes no
\* field of the driver; when the lookup fails, not-found included, it returns
\* the Error state together with the lookup's error.
C18_GetStateOnLookupFailure ==
    [][Invoked("GetState") =>
          /\ pc' = "idle"
          /\ Len(calls') = 1
          /\ calls'[1].api = "Server.GetByID" /\ calls'[1].id = serverId
          /\ calls'[1].err # Nil =>
                (ret' = calls'[1].err /\ retVal' = <<"Error">>)
          /\ UNCHANGED <<driver, provider>>]_vars

\* C18 witness: the bound server is gone and GetState has returned the Error
\* state with the provider's not-found error.
C18_Witness ==
    /\ Returned("GetState") /\ ret = ErrNotFound /\ retVal = <<StateError>>
    /\ Len(calls) = 1 /\ calls[1].err = ErrNotFound
    /\ serverId # 0 /\ servers[serverId] = Gone

\* C19: a SetConfigFromFlags that returns an error leaves every field of the
\* driver, the stored image, server type, datacenter and location among them,
\* as it was before the call.
C19_RejectedConfigureChangesNothing ==
    [][(op' = "SetConfigFromFlags" /\ ret' # Nil) => UNCHANGED driver]_vars

\* C20: on a driver whose client handle has not been set no operation crashes
\* and none reaches the provider: whenever an operation has issued a provider
\* call the client handle is set.
C20_UnconfiguredIsSafe ==
    /\ ~hcloud => pc # "crashed"
    /\ calls # << >> => hcloud
====
